---- MODULE Spec2Model ----
(***************************************************************************)
(* Model of app.py, the Streamlit voice dataset collector: a script that   *)
(* is executed top to bottom on every widget interaction of a session.     *)
(* Each execution runs the record tab pipeline when the recorder widget    *)
(* holds audio and then the upload tab pipeline when the file uploader     *)
(* holds a file: persist, transcribe, append to data/metadata.csv, push    *)
(* to the Hugging Face dataset repository.                                 *)
(*                                                                         *)
(* Strings are sequences of one-character strings, paths are sequences of  *)
(* path components, a file name is the pair <<uuid, extension>>.           *)
(***************************************************************************)
EXTENDS Integers, Sequences, FiniteSets, TLC

VARIABLES
    sessions,      \* the browser sessions driving this process
    pc,            \* pc[s]: the line the script thread of session s is at
    loc,           \* loc[s]: audio_type, filename, transcription, df of the run
    recorder,      \* recorder[s]: value of the audio_recorder widget (0: None)
    uploader,      \* uploader[s]: value of the file_uploader widget
    err,           \* err[s]: the call whose exception ended the last run
    audioFiles,    \* the files under BASE_DIR/audio: records [path, data]
    metadataFile,  \* data/metadata.csv: [exists, rows], rows as CSV fields
    remote,        \* the dataset repository: [exists, files, metadata]
    nextUuid,      \* uuid4(): the next fresh identifier
    actions,       \* history: number of record / upload actions so far
    persisted,     \* history: the files written, in order
    calls,         \* history: the model.transcribe calls, in order
    appends,       \* history: the samples of the completed save_metadata calls
    pushCount,     \* history: push_to_huggingface calls entered
    snap,          \* history: snap[s], ledger and remote when the invocation began
    steps,         \* history: steps[s], the steps of the current invocation
    faults,        \* history: network failures injected so far
    callNo         \* publish driver: number of the push call in progress

vars == <<sessions, pc, loc, recorder, uploader, err, audioFiles, metadataFile,
          remote, nextUuid, actions, persisted, calls, appends, pushCount,
          snap, steps, faults, callNo>>

----------------------------------------------------------------------------
(* Bounds *)

\* record / upload actions of the users, over all sessions
MaxActions == 2
\* network failures injected into create_repo / upload_folder / upload_file
MaxPublishErrors == 1

----------------------------------------------------------------------------
(* Values *)

Space == " "
Digits == <<"0", "1", "2", "3", "4", "5", "6", "7", "8", "9">>
IsDigit(c) == \E i \in 1..10 : Digits[i] = c
DigitVal(c) == (CHOOSE i \in 1..10 : Digits[i] = c) - 1

\* what model.transcribe(...)["text"] returns in the model
Texts == { <<>>, <<"h", "i">>, <<"0", "7">>, <<"N", "A">> }

\* result of transcribe_audio: the text, or None after an exception
None == [ok |-> FALSE, text |-> <<>>]
Some(t) == [ok |-> TRUE, text |-> t]

\* Python truthiness of transcribe_audio's result: None and "" are falsy
Truthy(t) == t.ok /\ t.text # <<>>

\* names of the files a user uploads: stem and extension as typed
UploadNames == { <<"clip", "MP3">>, <<"a", "wav">> }

\* str.lower() on the extensions the uploader accepts
Lower(e) ==
    CASE e = "MP3" -> "mp3"
      [] e = "WAV" -> "wav"
      [] e = "M4A" -> "m4a"
      [] e = "MP4" -> "mp4"
      [] OTHER -> e

NoUpload == [name |-> <<>>, data |-> 0]
NoLoc == [audio_type |-> "", filename |-> <<>>, transcription |-> None, df |-> <<>>]
NoFile == [exists |-> FALSE, rows |-> <<>>]
NoRemote == [exists |-> FALSE, files |-> {}, metadata |-> NoFile]
NoSnap == [ledger |-> NoFile, remote |-> NoRemote, pushes |-> 0]

----------------------------------------------------------------------------
(* pandas: DataFrame cells, read_csv, concat, to_csv *)

StrCell(s) == [kind |-> "str", s |-> s, n |-> 0]
IntCell(n) == [kind |-> "int", s |-> <<>>, n |-> n]
FloatCell(n) == [kind |-> "float", s |-> <<>>, n |-> n]
NaNCell == [kind |-> "nan", s |-> <<>>, n |-> 0]

\* the default na_values of read_csv, over the model's alphabet
NaValues == { <<>>, <<"N", "A">>, <<"N", "U", "L", "L">> }

RECURSIVE LStrip(_)
LStrip(s) == IF s # <<>> /\ Head(s) = Space THEN LStrip(Tail(s)) ELSE s

RECURSIVE RStrip(_)
RStrip(s) ==
    IF s # <<>> /\ s[Len(s)] = Space THEN RStrip(SubSeq(s, 1, Len(s) - 1)) ELSE s

Unsigned(s) == IF s # <<>> /\ Head(s) \in {"-", "+"} THEN Tail(s) ELSE s

\* the tokenizer's str_to_int64 accepts: spaces, a sign, digits, spaces
IsIntLiteral(s) ==
    LET d == Unsigned(RStrip(LStrip(s)))
    IN  d # <<>> /\ \A i \in 1..Len(d) : IsDigit(d[i])

RECURSIVE DigitsVal(_)
DigitsVal(d) ==
    IF d = <<>> THEN 0
    ELSE 10 * DigitsVal(SubSeq(d, 1, Len(d) - 1)) + DigitVal(d[Len(d)])

ParseInt(s) ==
    LET t == RStrip(LStrip(s))
    IN  IF t # <<>> /\ Head(t) = "-" THEN 0 - DigitsVal(Unsigned(t))
        ELSE DigitsVal(Unsigned(t))

RECURSIVE NatStr(_)
NatStr(n) == IF n < 10 THEN <<Digits[n + 1]>> ELSE NatStr(n \div 10) \o <<Digits[(n % 10) + 1]>>

\* str(int)
IntStr(n) == IF n < 0 THEN <<"-">> \o NatStr(0 - n) ELSE NatStr(n)

\* pd.read_csv(METADATA_PATH): the text column is inferred as a whole. NA
\* tokens become NaN; when every other field is an integer literal the column
\* is int64, or float64 if it holds a NaN; otherwise the fields stay strings.
\* The audio column holds paths with "/", never a number or an NA token.
read_csv(rows) ==
    LET isNa(i) == rows[i].text \in NaValues
        numeric == \A i \in 1..Len(rows) : isNa(i) \/ IsIntLiteral(rows[i].text)
        anyNa == \E i \in 1..Len(rows) : isNa(i)
        cell(i) ==
            IF isNa(i) THEN NaNCell
            ELSE IF numeric
                 THEN IF anyNa THEN FloatCell(ParseInt(rows[i].text))
                      ELSE IntCell(ParseInt(rows[i].text))
                 ELSE StrCell(rows[i].text)
    IN  [i \in 1..Len(rows) |-> [audio |-> rows[i].audio, text |-> cell(i)]]

\* the field to_csv writes for a cell: na_rep is "", a float prints as d.0
CsvField(c) ==
    CASE c.kind = "str" -> c.s
      [] c.kind = "int" -> IntStr(c.n)
      [] c.kind = "float" -> IntStr(c.n) \o <<".", "0">>
      [] OTHER -> <<>>

\* df.to_csv(METADATA_PATH, index=False)
to_csv(df) ==
    [exists |-> TRUE,
     rows |-> [i \in 1..Len(df) |-> [audio |-> df[i].audio, text |-> CsvField(df[i].text)]]]

\* the cell of a Python value put in a DataFrame (None is a missing value)
PyCell(t) == IF t.ok THEN StrCell(t.text) ELSE NaNCell

\* f"audio/{audio_type}/{audio_filename}", as path components
AudioRef(audio_type, filename) == <<"audio", audio_type, filename>>

\* new_row of save_metadata
new_row(audio_type, filename, transcription) ==
    <<[audio |-> AudioRef(audio_type, filename), text |-> PyCell(transcription)]>>

\* a concat with its arguments in the other order
concatFirst(df, row) == row \o df

\* pd.concat([df, new_row], ignore_index=True)
concat(df, row) == df \o row

----------------------------------------------------------------------------
(* Files *)

\* open(path, "wb").write(data) / scipy write(path, ...): creates or replaces
WriteFile(files, path, data) ==
    {f \in files : f.path # path} \cup {[path |-> path, data |-> data]}

\* an identifier generator that hands out the previous identifier again
uuid4Reused == IF nextUuid > 1 THEN nextUuid - 1 ELSE nextUuid

\* uuid.uuid4(): an identifier no earlier call returned
uuid4 == nextUuid

\* the path of a file of the audio folder relative to that folder, which is
\* where upload_folder puts it in the repository (path_in_repo is the root)
RepoPath(path) == Tail(path)

\* api.upload_folder(folder_path=BASE_DIR/audio): adds or replaces, never deletes
upload_folder(files, local) ==
    LET up == {[path |-> RepoPath(f.path), data |-> f.data] : f \in local}
    IN  {f \in files : \A u \in up : u.path # f.path} \cup up

\* create_repo without exist_ok: an existing repository raises
RepoConflictStrict(exists) == exists

\* create_repo(..., exist_ok=True): an existing repository is not an error
RepoConflict(exists) == FALSE

----------------------------------------------------------------------------
(* The script: one action per step of a run *)

\* the entry actions a behaviour holds: MaxActions of one session, or one
\* action for each of several sessions (their invocations can then overlap)
ActionQuota == IF Cardinality(sessions) = 1 THEN MaxActions ELSE Cardinality(sessions)

\* a widget interaction starts a run of the script from its first line
Rerun(s) ==
    /\ pc' = [pc EXCEPT ![s] = "record_tab"]
    /\ loc' = [loc EXCEPT ![s] = NoLoc]
    /\ err' = [err EXCEPT ![s] = "none"]
    /\ snap' = [snap EXCEPT ![s] = NoSnap]
    /\ steps' = [steps EXCEPT ![s] = <<>>]

\* the user records a clip: audio_recorder returns its bytes from now on
\* (the interface is busy while a run lasts: entry actions come when it is idle)
RecordVoice(s) ==
    /\ pc[s] = "idle"
    /\ actions < ActionQuota
    /\ actions' = actions + 1
    /\ recorder' = [recorder EXCEPT ![s] = actions + 1]
    /\ Rerun(s)
    /\ UNCHANGED <<sessions, uploader, audioFiles, metadataFile, remote, nextUuid,
                   persisted, calls, appends, pushCount, faults, callNo>>

\* the user selects a file: file_uploader returns it from now on
UploadAudio(s) ==
    /\ pc[s] = "idle"
    /\ actions < ActionQuota
    /\ \E name \in UploadNames :
          uploader' = [uploader EXCEPT ![s] = [name |-> name, data |-> actions + 1]]
    /\ actions' = actions + 1
    /\ Rerun(s)
    /\ UNCHANGED <<sessions, recorder, audioFiles, metadataFile, remote, nextUuid,
                   persisted, calls, appends, pushCount, faults, callNo>>

\* the state a pipeline invocation starts from, once its file is written
Persisted(s, audio_type, filename, data) ==
    LET path == AudioRef(audio_type, filename)
    IN  /\ audioFiles' = WriteFile(audioFiles, path, data)
        /\ nextUuid' = nextUuid + 1
        /\ loc' = [loc EXCEPT ![s] = [NoLoc EXCEPT !.audio_type = audio_type,
                                                  !.filename = filename]]
        /\ persisted' = Append(persisted, [path |-> path, data |-> data])
        /\ snap' = [snap EXCEPT ![s] = [ledger |-> metadataFile, remote |-> remote,
                                        pushes |-> pushCount]]
        /\ steps' = [steps EXCEPT ![s] = <<"persist">>]
        /\ pc' = [pc EXCEPT ![s] = "transcribe"]

\* save_recorded_audio(audio_bytes): the samples in a 44100 Hz WAV container
save_recorded_audio(s) ==
    Persisted(s, "recorded", <<uuid4, "wav">>, [enc |-> "wav", bytes |-> recorder[s]])

\* save_uploaded_file(uploaded_file): the bytes as they are, extension lower-cased
save_uploaded_file(s) ==
    LET ext == Lower(uploader[s].name[Len(uploader[s].name)])
    IN  Persisted(s, "uploaded", <<uuid4, ext>>, [enc |-> "raw", bytes |-> uploader[s].data])

\* record tab, "if audio_bytes:" taken
RecordTab(s) ==
    /\ pc[s] = "record_tab"
    /\ recorder[s] # 0
    /\ save_recorded_audio(s)
    /\ UNCHANGED <<sessions, recorder, uploader, err, metadataFile, remote, actions,
                   calls, appends, pushCount, faults, callNo>>

\* record tab, nothing recorded: st.info
RecordTabEmpty(s) ==
    /\ pc[s] = "record_tab"
    /\ recorder[s] = 0
    /\ pc' = [pc EXCEPT ![s] = "upload_tab"]
    /\ UNCHANGED <<sessions, loc, recorder, uploader, err, audioFiles, metadataFile,
                   remote, nextUuid, actions, persisted, calls, appends, pushCount,
                   snap, steps, faults, callNo>>

\* upload tab, "if uploaded_file:" taken
UploadTab(s) ==
    /\ pc[s] = "upload_tab"
    /\ uploader[s] # NoUpload
    /\ save_uploaded_file(s)
    /\ UNCHANGED <<sessions, recorder, uploader, err, metadataFile, remote, actions,
                   calls, appends, pushCount, faults, callNo>>

\* upload tab, no file selected
UploadTabEmpty(s) ==
    /\ pc[s] = "upload_tab"
    /\ uploader[s] = NoUpload
    /\ pc' = [pc EXCEPT ![s] = "display"]
    /\ UNCHANGED <<sessions, loc, recorder, uploader, err, audioFiles, metadataFile,
                   remote, nextUuid, actions, persisted, calls, appends, pushCount,
                   snap, steps, faults, callNo>>

\* the sample of the invocation session s is in, or was in last
CurrentRef(s) == AudioRef(loc[s].audio_type, loc[s].filename)
\* the row save_metadata is to leave for it in the file
CurrentRow(s) == [audio |-> CurrentRef(s), text |-> loc[s].transcription.text]

\* where the script goes on after the body of a tab
NextTab(s) == IF loc[s].audio_type = "recorded" THEN "upload_tab" ELSE "display"

\* an except branch that returns its error message
transcribe_audioMessage(outcome) ==
    IF outcome.ok THEN Some(outcome.text) ELSE Some(<<"e", "r", "r">>)

\* transcribe_audio's result for what model.transcribe did: its text, or None
\* when it raised (the except branch reports with st.error and returns None)
transcribe_audio(outcome) == IF outcome.ok THEN Some(outcome.text) ELSE None

\* transcription = transcribe_audio(audio_path)
Transcribe(s) ==
    /\ pc[s] = "transcribe"
    /\ \E outcome \in {None} \cup {Some(t) : t \in Texts} :
          /\ loc' = [loc EXCEPT ![s].transcription = transcribe_audio(outcome)]
          /\ calls' = Append(calls, [path |-> CurrentRef(s),
                                     raised |-> ~outcome.ok, text |-> outcome.text])
    /\ steps' = [steps EXCEPT ![s] = Append(@, "transcribe")]
    /\ pc' = [pc EXCEPT ![s] = "check"]
    /\ UNCHANGED <<sessions, recorder, uploader, err, audioFiles, metadataFile, remote,
                   nextUuid, actions, persisted, appends, pushCount, snap, faults,
                   callNo>>

\* "if transcription:"
Check(s) ==
    /\ pc[s] = "check"
    /\ pc' = [pc EXCEPT ![s] = IF Truthy(loc[s].transcription) THEN "save_metadata"
                                ELSE NextTab(s)]
    /\ UNCHANGED <<sessions, loc, recorder, uploader, err, audioFiles, metadataFile,
                   remote, nextUuid, actions, persisted, calls, appends, pushCount,
                   snap, steps, faults, callNo>>

\* save_metadata with the result of pd.concat dropped
save_metadataUnassigned(file, audio_type, filename, transcription) ==
    IF file.exists
    THEN read_csv(file.rows)
    ELSE new_row(audio_type, filename, transcription)

\* the table save_metadata builds from the ledger file it finds
save_metadata(file, audio_type, filename, transcription) ==
    IF file.exists
    THEN concat(read_csv(file.rows), new_row(audio_type, filename, transcription))
    ELSE new_row(audio_type, filename, transcription)

\* save_metadata up to the overwrite: new_row, exists, read_csv, concat
SaveMetadataRead(s) ==
    /\ pc[s] = "save_metadata"
    /\ loc' = [loc EXCEPT ![s].df = save_metadata(metadataFile, loc[s].audio_type,
                                                  loc[s].filename, loc[s].transcription)]
    /\ pc' = [pc EXCEPT ![s] = "to_csv"]
    /\ UNCHANGED <<sessions, recorder, uploader, err, audioFiles, metadataFile, remote,
                   nextUuid, actions, persisted, calls, appends, pushCount, snap,
                   steps, faults, callNo>>

\* df.to_csv(METADATA_PATH, index=False): the file is replaced as a whole
SaveMetadataWrite(s) ==
    /\ pc[s] = "to_csv"
    /\ metadataFile' = to_csv(loc[s].df)
    /\ appends' = Append(appends, CurrentRef(s))
    /\ steps' = [steps EXCEPT ![s] = Append(@, "append")]
    /\ pc' = [pc EXCEPT ![s] = "create_repo"]
    /\ UNCHANGED <<sessions, loc, recorder, uploader, err, audioFiles, remote, nextUuid,
                   actions, persisted, calls, pushCount, snap, faults, callNo>>

\* an exception nothing catches ends the run; Streamlit shows it and waits
Abort(s, call) ==
    /\ pc' = [pc EXCEPT ![s] = "idle"]
    /\ err' = [err EXCEPT ![s] = call]

\* a push that uploads metadata.csv before the audio folder
AfterPushMetadataFirst(call) ==
    CASE call = "create_repo" -> "upload_file"
      [] call = "upload_file" -> "upload_folder"
      [] OTHER -> "pushed"

\* the order of the three calls of push_to_huggingface
PushOrder == <<"create_repo", "upload_folder", "upload_file", "pushed">>

AfterPush(call) == PushOrder[(CHOOSE i \in 1..3 : PushOrder[i] = call) + 1]

\* push_to_huggingface, first call: create_repo(..., exist_ok=True)
CreateRepo(s) ==
    /\ pc[s] = "create_repo"
    /\ pushCount' = pushCount + 1
    /\ steps' = [steps EXCEPT ![s] = Append(@, "publish")]
    /\ \/ /\ IF RepoConflict(remote.exists)
             THEN Abort(s, "exists") /\ UNCHANGED remote
             ELSE /\ remote' = [remote EXCEPT !.exists = TRUE]
                  /\ pc' = [pc EXCEPT ![s] = AfterPush("create_repo")]
                  /\ UNCHANGED err
          /\ UNCHANGED faults
       \/ /\ faults < MaxPublishErrors
          /\ faults' = faults + 1
          /\ Abort(s, "create_repo")
          /\ UNCHANGED remote
    /\ UNCHANGED <<sessions, loc, recorder, uploader, audioFiles, metadataFile, nextUuid,
                   actions, persisted, calls, appends, snap, callNo>>

\* push_to_huggingface, second call: api.upload_folder(folder_path=.../audio)
UploadFolder(s) ==
    /\ pc[s] = "upload_folder"
    /\ \/ /\ remote' = [remote EXCEPT !.files = upload_folder(@, audioFiles)]
          /\ pc' = [pc EXCEPT ![s] = AfterPush("upload_folder")]
          /\ UNCHANGED <<err, faults>>
       \/ /\ faults < MaxPublishErrors
          /\ faults' = faults + 1
          /\ Abort(s, "upload_folder")
          /\ UNCHANGED remote
    /\ UNCHANGED <<sessions, loc, recorder, uploader, audioFiles, metadataFile, nextUuid,
                   actions, persisted, calls, appends, pushCount, snap, steps, callNo>>

\* push_to_huggingface, third call: api.upload_file(..., path_in_repo="metadata.csv")
UploadFile(s) ==
    /\ pc[s] = "upload_file"
    /\ \/ /\ remote' = [remote EXCEPT !.metadata = metadataFile]
          /\ pc' = [pc EXCEPT ![s] = AfterPush("upload_file")]
          /\ UNCHANGED <<err, faults>>
       \/ /\ faults < MaxPublishErrors
          /\ faults' = faults + 1
          /\ Abort(s, "upload_file")
          /\ UNCHANGED remote
    /\ UNCHANGED <<sessions, loc, recorder, uploader, audioFiles, metadataFile, nextUuid,
                   actions, persisted, calls, appends, pushCount, snap, steps, callNo>>

\* st.success(...) after the push: the body of the tab is over
Success(s) ==
    /\ pc[s] = "pushed"
    /\ pc' = [pc EXCEPT ![s] = NextTab(s)]
    /\ UNCHANGED <<sessions, loc, recorder, uploader, err, audioFiles, metadataFile,
                   remote, nextUuid, actions, persisted, calls, appends, pushCount,
                   snap, steps, faults, callNo>>

\* the metadata table is shown; the run is over and the session waits
Display(s) ==
    /\ pc[s] = "display"
    /\ pc' = [pc EXCEPT ![s] = "idle"]
    /\ UNCHANGED <<sessions, loc, recorder, uploader, err, audioFiles, metadataFile,
                   remote, nextUuid, actions, persisted, calls, appends, pushCount,
                   snap, steps, faults, callNo>>

----------------------------------------------------------------------------
(* Specifications *)

\* the process after start-up: the directories exist and are empty
InitWith(ss) ==
    /\ sessions = ss
    /\ pc = [s \in ss |-> "idle"]
    /\ loc = [s \in ss |-> NoLoc]
    /\ recorder = [s \in ss |-> 0]
    /\ uploader = [s \in ss |-> NoUpload]
    /\ err = [s \in ss |-> "none"]
    /\ audioFiles = {}
    /\ metadataFile = NoFile
    /\ remote = NoRemote
    /\ nextUuid = 1
    /\ actions = 0
    /\ persisted = <<>>
    /\ calls = <<>>
    /\ appends = <<>>
    /\ pushCount = 0
    /\ snap = [s \in ss |-> NoSnap]
    /\ steps = [s \in ss |-> <<>>]
    /\ faults = 0
    /\ callNo = 0

\* the sessions a browser can open in the model
Sessions == {1, 2}

Next ==
    \/ \E s \in Sessions : s \in sessions /\ RecordVoice(s)
    \/ \E s \in Sessions : s \in sessions /\ UploadAudio(s)
    \/ \E s \in Sessions : s \in sessions /\ RecordTab(s)
    \/ \E s \in Sessions : s \in sessions /\ RecordTabEmpty(s)
    \/ \E s \in Sessions : s \in sessions /\ UploadTab(s)
    \/ \E s \in Sessions : s \in sessions /\ UploadTabEmpty(s)
    \/ \E s \in Sessions : s \in sessions /\ Transcribe(s)
    \/ \E s \in Sessions : s \in sessions /\ Check(s)
    \/ \E s \in Sessions : s \in sessions /\ SaveMetadataRead(s)
    \/ \E s \in Sessions : s \in sessions /\ SaveMetadataWrite(s)
    \/ \E s \in Sessions : s \in sessions /\ CreateRepo(s)
    \/ \E s \in Sessions : s \in sessions /\ UploadFolder(s)
    \/ \E s \in Sessions : s \in sessions /\ UploadFile(s)
    \/ \E s \in Sessions : s \in sessions /\ Success(s)
    \/ \E s \in Sessions : s \in sessions /\ Display(s)

\* one session: the pipeline invocations run one at a time
Init == InitWith({1})
Spec == Init /\ [][Next]_vars

\* two sessions (two browser tabs) on the same process and files
InitConc == InitWith({1, 2})
SpecConc == InitConc /\ [][Next]_vars

----------------------------------------------------------------------------
(* push_to_huggingface called twice in a row on an unchanged local tree *)

\* local audio trees, ledgers and repository contents the calls start from
SomeFiles ==
    { [path |-> AudioRef("recorded", <<1, "wav">>), data |-> [enc |-> "wav", bytes |-> 1]],
      [path |-> AudioRef("uploaded", <<2, "mp3">>), data |-> [enc |-> "raw", bytes |-> 2]] }

SomeLedgers ==
    { to_csv(new_row("recorded", <<1, "wav">>, Some(<<"h", "i">>))),
      to_csv(new_row("recorded", <<1, "wav">>, Some(<<"0", "7">>))
             \o new_row("uploaded", <<2, "mp3">>, Some(<<"h", "i">>))) }

SomeRemoteFiles ==
    { [path |-> <<"recorded", <<1, "wav">>>>, data |-> [enc |-> "wav", bytes |-> 1]],
      [path |-> <<"recorded", <<1, "wav">>>>, data |-> [enc |-> "wav", bytes |-> 3]],
      [path |-> <<"recorded", <<3, "wav">>>>, data |-> [enc |-> "wav", bytes |-> 3]] }

OnePerPath(files) == \A f, g \in files : f.path = g.path => f = g

InitPublish ==
    /\ sessions = {1}
    /\ pc = [s \in {1} |-> "create_repo"]
    /\ loc = [s \in {1} |-> NoLoc]
    /\ recorder = [s \in {1} |-> 0]
    /\ uploader = [s \in {1} |-> NoUpload]
    /\ err = [s \in {1} |-> "none"]
    /\ audioFiles \in SUBSET SomeFiles
    /\ metadataFile \in SomeLedgers
    /\ \E files \in {fs \in SUBSET SomeRemoteFiles : OnePerPath(fs)} :
       \E metadata \in SomeLedgers \cup {NoFile} :
          remote \in {NoRemote, [exists |-> TRUE, files |-> files, metadata |-> metadata]}
    /\ nextUuid = 1
    /\ actions = 0
    /\ persisted = <<>>
    /\ calls = <<>>
    /\ appends = <<>>
    /\ pushCount = 0
    /\ snap = [s \in {1} |-> NoSnap]
    /\ steps = [s \in {1} |-> <<>>]
    /\ faults = 0
    /\ callNo = 1

\* the first call has returned: push_to_huggingface is called again
PublishAgain(s) ==
    /\ pc[s] = "pushed"
    /\ callNo = 1
    /\ callNo' = 2
    /\ snap' = [snap EXCEPT ![s] = [ledger |-> metadataFile, remote |-> remote,
                                    pushes |-> pushCount]]
    /\ pc' = [pc EXCEPT ![s] = "create_repo"]
    /\ UNCHANGED <<sessions, loc, recorder, uploader, err, audioFiles, metadataFile,
                   remote, nextUuid, actions, persisted, calls, appends, pushCount,
                   steps, faults>>

NextPublish ==
    \/ \E s \in Sessions : s \in sessions /\ CreateRepo(s)
    \/ \E s \in Sessions : s \in sessions /\ UploadFolder(s)
    \/ \E s \in Sessions : s \in sessions /\ UploadFile(s)
    \/ \E s \in Sessions : s \in sessions /\ PublishAgain(s)

SpecPublish == InitPublish /\ [][NextPublish]_vars

----------------------------------------------------------------------------
(* Properties *)

Range(f) == {f[i] : i \in DOMAIN f}
IsPrefix(p, q) == Len(p) <= Len(q) /\ SubSeq(q, 1, Len(p)) = p
AllIdle == \A s \in sessions : pc[s] = "idle"
appendCount == Len(appends)

\* session s is inside the body of a tab
InPipeline(s) ==
    pc[s] \in {"transcribe", "check", "save_metadata", "to_csv", "create_repo",
               "upload_folder", "upload_file", "pushed"}
\* model.transcribe raised in the invocation session s is in, or was in last
Raised(s) ==
    /\ Len(steps[s]) >= 2
    /\ \E c \in Range(calls) : c.path = CurrentRef(s) /\ c.raised
\* the number of ledger rows that name a path
Refs(path) == Cardinality({i \in 1..Len(metadataFile.rows) : metadataFile.rows[i].audio = path})
\* the transcription calls that returned a text, in order
RECURSIVE Returned(_)
Returned(cs) ==
    IF cs = <<>> THEN <<>>
    ELSE IF Head(cs).raised THEN Returned(Tail(cs)) ELSE <<Head(cs)>> \o Returned(Tail(cs))

\* C1: when model.transcribe raises, transcribe_audio returns None instead of
\* raising, the ledger is what it was before the invocation, and
\* push_to_huggingface is not called for that submission.
C1_TranscriptionFailureShortCircuit ==
    \A s \in sessions :
        Raised(s) =>
            /\ loc[s].transcription = None
            /\ err[s] = "none"
            /\ metadataFile = snap[s].ledger
            /\ pushCount = snap[s].pushes
            /\ remote = snap[s].remote
            /\ steps[s] = <<"persist", "transcribe">>

\* a failed transcription after the ledger already held a row, the tab left
C1_Witness ==
    \E s \in sessions :
        /\ Raised(s)
        /\ ~InPipeline(s)
        /\ snap[s].ledger.exists

\* C2 (as stated): after invocations run one at a time, the ledger holds one
\* row for every transcription call that returned a text, empty or not, in
\* submission order, the i-th row naming the i-th such sample.
C2_AppendOrdering ==
    AllIdle =>
        LET ok == Returned(calls)
        IN  /\ Len(metadataFile.rows) = Len(ok)
            /\ \A i \in 1..Len(ok) : metadataFile.rows[i].audio = ok[i].path

\* C3 (as stated): save_metadata leaves the previous rows unchanged, in
\* content and order, followed by the row (audio/{type}/{filename}, text).
C3_AppendPreservesPrefix ==
    \A s \in sessions :
        pc[s] = "create_repo" =>
            metadataFile.rows = snap[s].ledger.rows \o <<CurrentRow(s)>>

\* C4 (as stated): every persisted sample whose invocation has finished is
\* named by exactly one ledger row, and its file is never rewritten or deleted.
C4_ExactlyOneRow ==
    \A i \in 1..Len(persisted) :
        /\ persisted[i] \in audioFiles
        /\ (\A s \in sessions : InPipeline(s) => CurrentRef(s) # persisted[i].path)
              => Refs(persisted[i].path) = 1

\* C4 (amended): a persisted sample whose invocation has finished is named by
\* exactly one ledger row when its transcription returned a non-empty text and
\* by none when it raised or returned an empty text; no sample is ever named
\* by two rows, and its file is never rewritten or deleted.
C4_AtMostOneRow ==
    \A i \in 1..Len(persisted) :
        /\ persisted[i] \in audioFiles
        /\ \A j \in 1..Len(persisted) : persisted[j].path = persisted[i].path => i = j
        /\ Refs(persisted[i].path) <= 1
        /\ (\A s \in sessions : InPipeline(s) => CurrentRef(s) # persisted[i].path)
              => (Refs(persisted[i].path) = 1
                    <=> \E c \in Range(calls) :
                            c.path = persisted[i].path /\ ~c.raised /\ c.text # <<>>)

\* three finished samples: one with a row, one whose transcription raised,
\* one transcribed a run later, all files in place
C4_Witness ==
    /\ AllIdle
    /\ Len(persisted) >= 3
    /\ \E i \in 1..Len(persisted) : Refs(persisted[i].path) = 1
    /\ \E c \in Range(calls) : c.raised /\ Refs(c.path) = 0

\* C5 (as stated): the pipeline runs once for every record / upload action,
\* and no sample is persisted a second time.
C5_OneRunPerAction ==
    AllIdle =>
        /\ Len(persisted) = actions
        /\ \A i, j \in 1..Len(persisted) :
              persisted[i].data.bytes = persisted[j].data.bytes => i = j

\* C6: a second push_to_huggingface on an unchanged local tree leaves the
\* repository as the first call left it, and its create_repo raises no error
\* for the repository that exists and changes nothing.
C6_PublishIdempotent ==
    \A s \in sessions :
        /\ err[s] # "exists"
        /\ (callNo = 2 /\ pc[s] \in {"upload_folder", "pushed"}) => remote = snap[s].remote

\* the second call has returned; the repository also keeps a file that is not
\* in the local tree
C6_Witness ==
    \E s \in sessions :
        /\ callNo = 2
        /\ pc[s] = "pushed"
        /\ audioFiles # {}
        /\ \E f \in remote.files : f.path \notin {RepoPath(g.path) : g \in audioFiles}

\* C7: with overlapping invocations the ledger never holds more rows than
\* appends have completed, every row is the row of a completed append and the
\* last row that of the append completed last; the rows of other completed
\* appends can be missing (the witness).
C7_RowsBoundedByAppends ==
    /\ Len(metadataFile.rows) <= appendCount
    /\ metadataFile.exists <=> appendCount > 0
    /\ \A i \in 1..Len(metadataFile.rows) : metadataFile.rows[i].audio \in Range(appends)
    /\ appendCount > 0 =>
          metadataFile.rows[Len(metadataFile.rows)].audio = appends[appendCount]

\* both sessions have completed save_metadata and one row is gone
C7_Witness ==
    /\ appendCount = 2
    /\ Len(metadataFile.rows) = 1
    /\ \A s \in sessions : pc[s] \in {"create_repo", "upload_folder", "upload_file", "pushed"}

\* C8: when a call of push_to_huggingface fails, the repository has neither
\* audio nor metadata updated (create_repo or upload_folder failed) or has the
\* audio updated and the metadata of before (upload_file failed); the run ends
\* there, push is not called again, and the ledger keeps the row it appended.
C8_NonAtomicPublish ==
    \A s \in sessions :
        (pc[s] = "idle" /\ err[s] # "none") =>
            /\ err[s] \in {"create_repo", "upload_folder", "upload_file"}
            /\ remote.metadata = snap[s].remote.metadata
            /\ err[s] \in {"create_repo", "upload_folder"}
                  => remote.files = snap[s].remote.files
            /\ err[s] = "upload_file"
                  => remote.files = upload_folder(snap[s].remote.files, audioFiles)
            /\ pushCount = snap[s].pushes + 1
            /\ Len(metadataFile.rows) = Len(snap[s].ledger.rows) + 1
            /\ metadataFile.rows[Len(metadataFile.rows)] = CurrentRow(s)

\* upload_file failed after an earlier push had succeeded: new audio in the
\* repository, metadata.csv there one row behind the local ledger
C8_Witness ==
    \E s \in sessions :
        /\ pc[s] = "idle"
        /\ err[s] = "upload_file"
        /\ snap[s].remote.metadata.exists
        /\ remote.metadata # metadataFile
        /\ remote.files # snap[s].remote.files

\* C9: the steps of an invocation occur in the order persist, transcribe,
\* append, publish; push_to_huggingface is called once after each completed
\* append and never otherwise, so that at every call the ledger holds the row
\* of the current sample and the audio tree holds its file.
C9_StrictSequencing ==
    /\ \A s \in sessions :
          /\ IsPrefix(steps[s], <<"persist", "transcribe", "append", "publish">>)
          /\ pc[s] \in {"create_repo", "upload_folder", "upload_file"} =>
                /\ Truthy(loc[s].transcription)
                /\ metadataFile.exists
                /\ metadataFile.rows[Len(metadataFile.rows)] = CurrentRow(s)
                /\ \E f \in audioFiles : f.path = CurrentRef(s)
    /\ pushCount = appendCount - Cardinality({s \in sessions : pc[s] = "create_repo"})

\* a second sample is being published: its row follows the first one's
C9_Witness ==
    \E s \in sessions :
        /\ pc[s] = "upload_file"
        /\ pushCount = 2
        /\ Len(metadataFile.rows) = 2

\* C10 (as stated): every audio value of the repository's metadata.csv is the
\* path of a file of the repository.
C10_RemoteReferentialIntegrity ==
    remote.metadata.exists =>
        \A i \in 1..Len(remote.metadata.rows) :
            \E f \in remote.files : f.path = remote.metadata.rows[i].audio

====
